---- MODULE Spec2Model ----
(***************************************************************************)
(* Wiki Explorer (src/index.jsx): the request-state machine of the App     *)
(* component.  The controller state is the React state of App; the two     *)
(* asynchronous handlers (handleSearch, fetchArticleExtract) are split at  *)
(* their await: the part before the fetch is the user's action, the part  *)
(* after it is the handling of the response, which React applies as one    *)
(* batch.  Requests in flight are kept in issue order.                     *)
(*                                                                         *)
(* Text is a sequence of one-character strings; the fixed text of a        *)
(* template literal is kept as one element.                                *)
(***************************************************************************)
EXTENDS Integers, Sequences, FiniteSets, TLC

\* ------------------------------------------------------------------ bounds
MaxInFlight == 2       \* most requests awaiting their response at once
NumPages == 11         \* pages of the remote index (more than srlimit)

\* --------------------------------------------------------------- constants
srlimit == 10          \* index.jsx:145

Null == [null |-> TRUE]

\* ------------------------------------------------------------------- text
\* what is typed into the search box: nothing, white space, a word, a word
\* after white space
Terms == {<<>>, <<" ">>, <<"q">>, <<" ", "q">>}

WhiteSpace == {" ", "\t", "\n"}

RECURSIVE trimStart(_)
trimStart(s) ==
  IF s = <<>> THEN s
  ELSE IF Head(s) \in WhiteSpace THEN trimStart(Tail(s)) ELSE s

RECURSIVE trimEnd(_)
trimEnd(s) ==
  IF s = <<>> THEN s
  ELSE IF s[Len(s)] \in WhiteSpace THEN trimEnd(SubSeq(s, 1, Len(s) - 1)) ELSE s

\* String.prototype.trim
trim(s) == trimEnd(trimStart(s))

\* JavaScript truthiness of a string
Truthy(s) == s # <<>>

Contains(msg, s) ==
  \E i \in 1..(Len(msg) - Len(s) + 1) : SubSeq(msg, i, i + Len(s) - 1) = s

\* characters encodeURIComponent leaves alone (those the model's titles use)
Unreserved ==
  {"A", "P", "Q", "c", "0", "1", "2", "3", "4", "5", "6", "7", "8", "9",
   "-", "_", ".", "!", "~", "*", "'", "(", ")"}

\* code unit of the characters it escapes
CharCode(c) ==
  CASE c = " " -> 32
    [] c = "%" -> 37
    [] c = "&" -> 38
    [] OTHER -> 63

HexDigits ==
  <<"0", "1", "2", "3", "4", "5", "6", "7", "8", "9", "A", "B", "C", "D", "E", "F">>

PercentEscape(c) ==
  <<"%", HexDigits[(CharCode(c) \div 16) + 1], HexDigits[(CharCode(c) % 16) + 1]>>

RECURSIVE encodeURIComponent(_)
encodeURIComponent(s) ==
  IF s = <<>> THEN <<>>
  ELSE (IF Head(s) \in Unreserved THEN <<Head(s)>> ELSE PercentEscape(Head(s)))
       \o encodeURIComponent(Tail(s))

\* ----------------------------------------------------------- the messages
\* an error that is set: its text
Message(text) == [text |-> text]

NoResultsMessageTrimmed(term) ==
  Message(<<"No results found for \"">> \o trim(term) \o <<"\"">>)
NoResultsMessage(term) ==
  Message(<<"No results found for \"">> \o term \o <<"\"">>)
SearchFailedMessage == Message(<<"Failed to fetch search results from Wikipedia.">>)
NoContentMessage(title) ==
  Message(<<"Could not retrieve full article content for ">> \o title \o <<".">>)
ArticleFailedMessage == Message(<<"Failed to load article content.">>)

WikiPath == <<"https://en.wikipedia.org/wiki/">>

ArticleOfRawTitle(page) ==
  [title |-> page.title,
   content |-> page.extract,
   url |-> WikiPath \o page.title]
ArticleOf(page) ==
  [title |-> page.title,
   content |-> page.extract,
   url |-> WikiPath \o encodeURIComponent(page.title)]

\* ------------------------------------------------- the remote service
\* The MediaWiki endpoints are outside the repository: what follows is the
\* set of answers the handlers can be given.
\* the pages of the index carry one of two titles
PageTitle(p) == IF p % 2 = 1 THEN <<"Q", " ", "c">> ELSE <<"Q", "&", "A">>

SearchHit(p) ==
  [pageid |-> p, title |-> PageTitle(p), snippet |-> <<"<span>">> \o PageTitle(p)]

Take(s, n) == SubSeq(s, 1, IF n < Len(s) THEN n ELSE Len(s))

\* rankings the search index can hold: none, a short one out of page-id
\* order, and every page
Rankings == {<<>>, <<2, 1>>, [i \in 1..NumPages |-> i]}

\* the endpoint answers with at most the srlimit asked for
HitLists(limit) ==
  {[i \in DOMAIN Take(r, limit) |-> SearchHit(r[i])] : r \in Rankings}

Rejected == [status |-> "rejected"]
NotOk == [status |-> "http", ok |-> FALSE]
Ok(data) == [status |-> "http", ok |-> TRUE, data |-> data]

SearchResponses(req) ==
  {Rejected, NotOk}
  \cup {Ok([error |-> [info |-> <<"badvalue">>], query |-> Null])}
  \cup {Ok([error |-> Null, query |-> Null])}
  \cup {Ok([error |-> Null, query |-> [search |-> l]]) : l \in HitLists(req.srlimit)}

Intro == <<"I", "n", "t", "r", "o">>

\* a page entry: the title the remote files the page under (the one asked
\* for, or another one) and an extract that is absent, empty or a text
PageEntries(title) ==
  {[title |-> t, hasExtract |-> h, extract |-> x] :
     t \in {title, PageTitle(2)},
     h \in BOOLEAN,
     x \in {<<>>, Intro}}

ArticleResponses(req) ==
  {Rejected, NotOk}
  \cup {Ok([query |-> Null])}
  \cup {Ok([query |-> [pages |-> <<>>]])}
  \cup {Ok([query |-> [pages |-> <<p>>]]) :
          p \in {e \in PageEntries(req.title) : e.hasExtract \/ e.extract = <<>>}}


\* ------------------------------------------------------------- the state
VARIABLES
  searchTerm,        \* index.jsx:11
  results,           \* index.jsx:12
  loading,           \* index.jsx:13
  error,             \* index.jsx:14, Null or [text]
  selectedArticle,   \* index.jsx:15, Null or [title, content, url]
  hasSearched,       \* index.jsx:21
  inflight,          \* requests whose response is awaited, in issue order
  last,              \* history: the step taken last
  trip               \* history: select / success / dismiss with nothing between

ctl == <<searchTerm, results, loading, error, selectedArticle, hasSearched>>
vars == <<searchTerm, results, loading, error, selectedArticle, hasSearched,
          inflight, last, trip>>

Snapshot ==
  [searchTerm |-> searchTerm, results |-> results, loading |-> loading,
   error |-> error, selectedArticle |-> selectedArticle,
   hasSearched |-> hasSearched, inflight |-> inflight]

Step(op, req, resp) == [op |-> op, req |-> req, resp |-> resp]

NoTrip == [phase |-> "none", S |-> Null]

Remove(s, i) == SubSeq(s, 1, i - 1) \o SubSeq(s, i + 1, Len(s))

Init ==
  /\ searchTerm = <<>>
  /\ results = <<>>
  /\ loading = FALSE
  /\ error = Null
  /\ selectedArticle = Null
  /\ hasSearched = FALSE
  /\ inflight = <<>>
  /\ last = [op |-> "init", req |-> Null, resp |-> Null]
  /\ trip = NoTrip

\* ------------------------------------------------------- the user's steps
\* onChange of the input, which is disabled while loading
setSearchTerm(t) ==
  /\ ~loading
  /\ t # searchTerm
  /\ searchTerm' = t
  /\ last' = Step("setSearchTerm", Null, Null)
  /\ trip' = NoTrip
  /\ UNCHANGED <<results, loading, error, selectedArticle, hasSearched, inflight>>

\* the guard of handleSearch
AcceptedNoTrim(term) == Truthy(term)
Accepted(term) == Truthy(trim(term))

SearchRequest(term) == [kind |-> "search", term |-> term, srlimit |-> srlimit]

\* onSubmit of the form, whose input and button are disabled while loading,
\* up to the fetch
handleSearch ==
  /\ ~loading
  /\ trip' = NoTrip
  /\ IF ~Accepted(searchTerm)
       THEN /\ last' = Step("handleSearch", Null, Null)
            /\ UNCHANGED <<ctl, inflight>>
       ELSE /\ Len(inflight) < MaxInFlight
            /\ hasSearched' = TRUE
            /\ loading' = TRUE
            /\ results' = <<>>
            /\ selectedArticle' = Null
            /\ error' = Null
            /\ inflight' = Append(inflight, SearchRequest(searchTerm))
            /\ last' = Step("handleSearch", SearchRequest(searchTerm), Null)
            /\ UNCHANGED searchTerm

\* the argument the result button passes to fetchArticleExtract
ClickedSnippet(result) == result.snippet
ClickedTitle(result) == result.title

\* shown and other are history: the list shown when the request was issued,
\* and the article of the request answered last while this one was in
\* flight, with whether that request was issued later than this one
ArticleRequest(title) ==
  [kind |-> "article", title |-> title, shown |-> results, other |-> Null]

\* onClick of the i-th result button, rendered while no article is
\* selected, up to the fetch
fetchArticleExtract(i) ==
  /\ selectedArticle = Null
  /\ i \in DOMAIN results
  /\ Len(inflight) < MaxInFlight
  /\ selectedArticle' = Null
  /\ loading' = TRUE
  /\ error' = Null
  /\ inflight' = Append(inflight, ArticleRequest(ClickedTitle(results[i])))
  /\ last' = Step("fetchArticleExtract", ArticleRequest(ClickedTitle(results[i])), Null)
  /\ trip' = [phase |-> "called", S |-> Snapshot]
  /\ UNCHANGED <<searchTerm, results, hasSearched>>

\* the close button of the article view
clearArticleAndResults ==
  /\ selectedArticle # Null
  /\ selectedArticle' = Null
  /\ results' = <<>>
  /\ last' = Step("clearArticle", Null, Null)
  /\ trip' = IF trip.phase = "succeeded"
               THEN [phase |-> "dismissed", S |-> trip.S] ELSE NoTrip
  /\ UNCHANGED <<searchTerm, loading, error, hasSearched, inflight>>
clearArticle ==
  /\ selectedArticle # Null
  /\ selectedArticle' = Null
  /\ last' = Step("clearArticle", Null, Null)
  /\ trip' = IF trip.phase = "succeeded"
               THEN [phase |-> "dismissed", S |-> trip.S] ELSE NoTrip
  /\ UNCHANGED <<searchTerm, results, loading, error, hasSearched, inflight>>

\* ---------------------------------------------------- the responses
\* the finally block: the value of loading once the handler has run
settledUnlessThrown(threw) == threw
settled(threw) == FALSE

\* the try block of handleSearch throws
SearchThrows(resp) ==
  \/ resp.status = "rejected"
  \/ ~resp.ok
  \/ resp.data.error # Null

\* data.query?.search || []
searchResults(resp) ==
  IF resp.data.query = Null THEN <<>> ELSE resp.data.query.search

\* handleSearch from the fetch on
handleSearchResponse(i, resp) ==
  /\ IF SearchThrows(resp)
       THEN /\ error' = SearchFailedMessage
            /\ UNCHANGED results
       ELSE /\ results' = searchResults(resp)
            /\ error' = IF Len(searchResults(resp)) = 0
                          THEN NoResultsMessage(inflight[i].term) ELSE error
  /\ loading' = settled(SearchThrows(resp))
  /\ inflight' = Remove(inflight, i)
  /\ last' = Step("searchResponse", inflight[i], resp)
  /\ trip' = NoTrip
  /\ UNCHANGED <<searchTerm, selectedArticle, hasSearched>>

ArticleThrows(resp) == resp.status = "rejected" \/ ~resp.ok

\* data.query?.pages?.[0]
FirstPage(resp) ==
  IF resp.data.query = Null THEN Null
  ELSE IF resp.data.query.pages = <<>> THEN Null
  ELSE resp.data.query.pages[1]

\* page && page.extract
HasExtract(page) == page # Null /\ page.hasExtract /\ Truthy(page.extract)

Succeeds(resp) == ~ArticleThrows(resp) /\ HasExtract(FirstPage(resp))

\* the article held once a response with an extract has been handled
KeepFirstSelected(current, page) ==
  IF current # Null THEN current ELSE ArticleOf(page)
NextSelected(current, page) == ArticleOf(page)

\* the article requests still in flight remember the article of the i-th
Overtake(reqs, i, article) ==
  [j \in DOMAIN reqs |->
     IF j # i /\ reqs[j].kind = "article"
       THEN [reqs[j] EXCEPT !.other = [article |-> article, issuedLater |-> j < i]]
       ELSE reqs[j]]

\* fetchArticleExtract from the fetch on
handleArticleResponse(i, resp) ==
  /\ IF ArticleThrows(resp)
       THEN /\ error' = ArticleFailedMessage
            /\ UNCHANGED selectedArticle
            /\ inflight' = Remove(inflight, i)
       ELSE IF HasExtract(FirstPage(resp))
         THEN /\ selectedArticle' = NextSelected(selectedArticle, FirstPage(resp))
              /\ UNCHANGED error
              /\ inflight' = Remove(Overtake(inflight, i, ArticleOf(FirstPage(resp))), i)
         ELSE /\ error' = NoContentMessage(inflight[i].title)
              /\ UNCHANGED selectedArticle
              /\ inflight' = Remove(inflight, i)
  /\ loading' = settled(ArticleThrows(resp))
  /\ last' = Step("articleResponse", inflight[i], resp)
  /\ trip' = IF trip.phase = "called" /\ i = Len(inflight) /\ Succeeds(resp)
               THEN [phase |-> "succeeded", S |-> trip.S] ELSE NoTrip
  /\ UNCHANGED <<searchTerm, results, hasSearched>>

Next ==
  \/ \E t \in Terms : setSearchTerm(t)
  \/ handleSearch
  \/ \E i \in DOMAIN results : fetchArticleExtract(i)
  \/ clearArticle
  \/ \E i \in DOMAIN inflight :
       /\ inflight[i].kind = "search"
       /\ \E resp \in SearchResponses(inflight[i]) : handleSearchResponse(i, resp)
  \/ \E i \in DOMAIN inflight :
       /\ inflight[i].kind = "article"
       /\ \E resp \in ArticleResponses(inflight[i]) : handleArticleResponse(i, resp)

Spec == Init /\ [][Next]_vars

\* ------------------------------------------------------------ properties
SearchInFlight == \E i \in DOMAIN inflight : inflight[i].kind = "search"

\* the matches a search response carries
Matches(resp) ==
  IF resp.status = "http" /\ resp.ok /\ resp.data.error = Null /\ resp.data.query # Null
    THEN resp.data.query.search ELSE <<>>

\* a search response that is an answer (no transport failure, no error payload)
Answered(resp) == resp.status = "http" /\ resp.ok /\ resp.data.error = Null

\* C1: from the step that accepts a search until that search's response is
\* handled, the result list is empty and neither an article nor an error is
\* set.
C1_ClearedUntilResolved ==
  SearchInFlight => results = <<>> /\ selectedArticle = Null /\ error = Null

\* C2: select, success and dismiss with nothing in between give back exactly
\* the state held before the select: same result list, error and loading
\* flag, no article, no request issued by the dismiss.
C2_RoundTripExact ==
  trip.phase = "dismissed" =>
    /\ results = trip.S.results
    /\ error = trip.S.error
    /\ loading = trip.S.loading
    /\ selectedArticle = Null
    /\ Len(inflight) = Len(trip.S.inflight)

\* C2, amended: select, success and dismiss with nothing in between give
\* back the result list, search term and has-searched flag held before the
\* select, no article and as many requests in flight (the dismiss issues
\* none); the error is null and the loading flag false.
C2_RoundTripKeepsResults ==
  trip.phase = "dismissed" =>
    /\ results = trip.S.results
    /\ searchTerm = trip.S.searchTerm
    /\ hasSearched = trip.S.hasSearched
    /\ selectedArticle = Null
    /\ Len(inflight) = Len(trip.S.inflight)
    /\ error = Null
    /\ loading = FALSE

C2_Witness ==
  /\ trip.phase = "dismissed"
  /\ Len(results) > 0
  /\ trip.S.error # Null

\* C3: a submit whose term is empty once trimmed issues no request and
\* changes no state variable.
C3_BlankSubmitIsNoOp ==
  [][(last'.op = "handleSearch" /\ trim(searchTerm) = <<>>)
       => UNCHANGED <<ctl, inflight>>]_vars

C3_Witness ==
  /\ last.op = "handleSearch"
  /\ last.req = Null
  /\ Len(searchTerm) > 0
  /\ Len(results) > 0

\* C4: once the response of a search carrying at least one match is
\* handled, the result list is the list of matches in order, of at most 10
\* entries, the error is null and loading is false.
C4_ResultsPopulated ==
  (last.op = "searchResponse" /\ Len(Matches(last.resp)) > 0) =>
    /\ results = Matches(last.resp)
    /\ Len(results) <= 10
    /\ error = Null
    /\ loading = FALSE

\* C5: once the response of a search carrying no match is handled, the
\* result list is empty, loading is false and the error message contains
\* the term submitted with that search.
C5_NoMatchNamesTerm ==
  (last.op = "searchResponse" /\ Answered(last.resp) /\ Len(Matches(last.resp)) = 0) =>
    /\ results = <<>>
    /\ loading = FALSE
    /\ error # Null
    /\ Contains(error.text, last.req.term)

C5_Witness ==
  /\ last.op = "searchResponse"
  /\ Answered(last.resp)
  /\ Len(Matches(last.resp)) = 0
  /\ searchTerm # last.req.term
  /\ trim(last.req.term) # last.req.term

\* the page entry of an extraction response, Null when it has none
PageIn(resp) ==
  IF resp.status = "http" /\ resp.ok /\ resp.data.query # Null
     /\ resp.data.query.pages # <<>>
    THEN resp.data.query.pages[1] ELSE Null

\* an extraction response that is an answer (no transport failure)
Delivered(resp) == resp.status = "http" /\ resp.ok

\* an extraction response carrying a non-empty extract
CarriesExtract(resp) ==
  /\ PageIn(resp) # Null
  /\ PageIn(resp).hasExtract
  /\ PageIn(resp).extract # <<>>

\* C6: once the response of selectArticle(title) carrying a non-empty
\* extract is handled, an article is selected whose content is the extract
\* and whose URL is the article path followed by the percent-encoding of
\* the title passed to selectArticle.
C6_UrlOfRequestedTitle ==
  (last.op = "articleResponse" /\ CarriesExtract(last.resp)) =>
    /\ selectedArticle # Null
    /\ selectedArticle.content = PageIn(last.resp).extract
    /\ selectedArticle.url = WikiPath \o encodeURIComponent(last.req.title)

\* C6, amended: ... whose URL is the article path followed by the
\* percent-encoding of the title of the page in the response, which is also
\* the title of the selected article; it is the encoding of the title
\* passed to selectArticle when the response files the page under it.
C6_UrlOfPageTitle ==
  (last.op = "articleResponse" /\ CarriesExtract(last.resp)) =>
    /\ selectedArticle # Null
    /\ selectedArticle.content = PageIn(last.resp).extract
    /\ selectedArticle.title = PageIn(last.resp).title
    /\ selectedArticle.url = WikiPath \o encodeURIComponent(PageIn(last.resp).title)
    /\ (PageIn(last.resp).title = <<"Q", " ", "c">> =>
          selectedArticle.url = WikiPath \o <<"Q", "%", "2", "0", "c">>)
    /\ (PageIn(last.resp).title = last.req.title =>
          selectedArticle.url = WikiPath \o encodeURIComponent(last.req.title))

C6_Witness ==
  /\ last.op = "articleResponse"
  /\ CarriesExtract(last.resp)
  /\ last.req.title = <<"Q", " ", "c">>
  /\ PageIn(last.resp).title = last.req.title
  /\ selectedArticle.content = Intro

\* C7: once the response of selectArticle(title) with a missing or empty
\* extract is handled, no article is selected, the error names the title,
\* loading is false and the result list is the one held at the call.
C7_MissingExtractIsError ==
  (last.op = "articleResponse" /\ Delivered(last.resp) /\ ~CarriesExtract(last.resp)) =>
    /\ selectedArticle = Null
    /\ error # Null
    /\ Contains(error.text, last.req.title)
    /\ loading = FALSE
    /\ results = last.req.shown

Failed ==
  \/ /\ last.op = "searchResponse"
     /\ (~Answered(last.resp) \/ Len(Matches(last.resp)) = 0)
  \/ /\ last.op = "articleResponse"
     /\ (~Delivered(last.resp) \/ ~CarriesExtract(last.resp))

\* a submit of the current term would be accepted and issue a request
CanSubmit == ENABLED (handleSearch /\ Len(inflight') = Len(inflight) + 1)

\* C9: a request that ends in a failure leaves a non-null error; with no
\* request in flight loading is false, the search box can be typed in and a
\* non-empty term can be submitted; an accepted submit clears the error and
\* issues one search request, a click on a result issues one extraction
\* request, and handling a response issues none.
C9_NoFailureIsFatal ==
  /\ [](Failed => error # Null)
  /\ [](inflight = <<>> =>
          /\ loading = FALSE
          /\ \A t \in Terms \ {searchTerm} : ENABLED setSearchTerm(t)
          /\ (trim(searchTerm) # <<>> => CanSubmit))
  /\ [][/\ (last'.op = "handleSearch" /\ trim(searchTerm) # <<>>) =>
             /\ error' = Null
             /\ inflight' = Append(inflight, last'.req)
             /\ last'.req.kind = "search"
             /\ last'.req.term = searchTerm
        /\ last'.op = "fetchArticleExtract" => inflight' = Append(inflight, last'.req)
        /\ last'.op \in {"searchResponse", "articleResponse"} =>
             Len(inflight') = Len(inflight) - 1]_vars

C9_Witness ==
  /\ Failed
  /\ last.op = "articleResponse"
  /\ error # Null
  /\ inflight = <<>>
  /\ trim(searchTerm) # <<>>
  /\ CanSubmit

\* C10: once the response of an extraction request is handled that carries
\* an extract, while another extraction request that was in flight at the
\* same time has already been answered with one, the selected article is
\* that of the response handled last, also when its request was issued
\* first.
C10_LastCompletedWins ==
  (/\ last.op = "articleResponse"
   /\ CarriesExtract(last.resp)
   /\ last.req.other # Null) =>
    selectedArticle = ArticleOf(PageIn(last.resp))

C10_Witness ==
  /\ last.op = "articleResponse"
  /\ CarriesExtract(last.resp)
  /\ last.req.other # Null
  /\ last.req.other.issuedLater
  /\ selectedArticle = ArticleOf(PageIn(last.resp))
  /\ selectedArticle.title = last.req.title
  /\ selectedArticle.title # last.req.other.article.title

\* the search requests in flight
SearchesInFlight == {i \in DOMAIN inflight : inflight[i].kind = "search"}

\* C11: loading is true whenever a request is in flight, so that no submit
\* is accepted while a request is in flight and at most one search request
\* is in flight at any time.
C11_LoadingTracksInFlight ==
  /\ [](inflight # <<>> => loading = TRUE)
  /\ [](Cardinality(SearchesInFlight) <= 1)
  /\ [][(last'.op = "handleSearch" /\ last'.req # Null) => inflight = <<>>]_vars

====
